---- MODULE Spec2Model ----
(***************************************************************************)
(* Model of server/routes/books.js: the express router over the shared,   *)
(* in-memory `books` array (list, fetch, metadata, create, update, delete) *)
(* together with the middleware pipeline of the three mutation routes.    *)
(*                                                                         *)
(* JavaScript values are tagged records [t, n, s]: t is the type tag, n    *)
(* the number (integers only), s the string as a sequence of characters.   *)
(***************************************************************************)
EXTENDS Integers, Sequences, FiniteSets, TLC

\* ---------------------------------------------------------------- bounds
\* Number of records in the seed collection (ids 1..SeedSize).
SeedSize == 2

\* Number of successful creates and updates explored (deletes are bounded
\* by the records there are to delete).
MaxWrites == 2

\* ------------------------------------------------------ JavaScript values
Undef == [t |-> "undefined", n |-> 0, s |-> <<>>]

NaN == [t |-> "NaN", n |-> 0, s |-> <<>>]

Num(k) == [t |-> "number", n |-> k, s |-> <<>>]

Str(x) == [t |-> "string", n |-> 0, s |-> x]

IsStr(v) == v.t = "string"

IsNum(v) == v.t = "number"

\* ToBoolean: undefined, NaN, 0 and "" are falsy.
Truthy(v) ==
  CASE v.t = "undefined" -> FALSE
    [] v.t = "NaN" -> FALSE
    [] v.t = "number" -> v.n # 0
    [] v.t = "string" -> v.s # <<>>

\* a || b
OrElse(a, b) == IF Truthy(a) THEN a ELSE b

\* Property read of an object: an absent property reads as undefined.
Get(obj, f) == IF f \in DOMAIN obj THEN obj[f] ELSE Undef

\* UTF-16 code unit of the characters the model uses.
Code(c) ==
  CASE c = "-" -> 45
    [] c = "0" -> 48 [] c = "1" -> 49 [] c = "2" -> 50 [] c = "3" -> 51
    [] c = "4" -> 52 [] c = "5" -> 53 [] c = "6" -> 54 [] c = "7" -> 55
    [] c = "8" -> 56 [] c = "9" -> 57
    [] c = "A" -> 65 [] c = "B" -> 66
    [] c = "a" -> 97 [] c = "b" -> 98 [] c = "x" -> 120

Chars == {"-", "0", "1", "2", "3", "4", "5", "6", "7", "8", "9",
          "A", "B", "a", "b", "x"}

IsDigit(c) == Code(c) \in 48..57

\* String.prototype.toLowerCase on one character.
LowerChar(c) ==
  IF Code(c) \in 65..90 THEN CHOOSE d \in Chars : Code(d) = Code(c) + 32 ELSE c

\* String.prototype.toLowerCase (on the character sequence of a string).
ToLowerCase(s) == [i \in 1..Len(s) |-> LowerChar(s[i])]

\* String.prototype.includes: t occurs in s as a contiguous substring.
Includes(s, t) ==
  \E i \in 0..(Len(s) - Len(t)) : SubSeq(s, i + 1, i + Len(t)) = t

\* Number of leading decimal digits of s.
RECURSIVE DigitRun(_)
DigitRun(s) ==
  IF s = <<>> \/ ~IsDigit(Head(s)) THEN 0 ELSE 1 + DigitRun(Tail(s))

\* Value of a non-empty sequence of decimal digits.
RECURSIVE DigitsValue(_)
DigitsValue(s) ==
  IF s = <<>> THEN 0
  ELSE 10 * DigitsValue(SubSeq(s, 1, Len(s) - 1)) + (Code(s[Len(s)]) - 48)

\* parseInt / parseFloat on a character sequence: optional sign, then the
\* longest run of digits; NaN when there is none.  (The model's alphabet
\* has no ".", so both functions read the same prefix.)
ParseDigits(s) ==
  LET neg == s # <<>> /\ Head(s) = "-"
      rest == IF neg THEN Tail(s) ELSE s
      k == DigitRun(rest)
  IN  IF k = 0 THEN NaN
      ELSE Num((IF neg THEN -1 ELSE 1) * DigitsValue(SubSeq(rest, 1, k)))

\* parseInt(v): v is converted to a string first.
ParseInt(v) ==
  CASE v.t = "string" -> ParseDigits(v.s)
    [] v.t = "number" -> v
    [] OTHER -> NaN

\* parseFloat(v), on the integer-valued inputs of the model.
ParseFloat(v) ==
  CASE v.t = "string" -> ParseDigits(v.s)
    [] v.t = "number" -> v
    [] OTHER -> NaN

\* a === b on the model's values (NaN is not equal to itself).
StrictEq(a, b) == a.t # "NaN" /\ a = b

\* slice(0, end) with a negative end read as "nothing" instead of as an
\* offset from the end of the array.
Slice0NegativeEmpty(list, end) ==
  LET n == Len(list)
      rel == IF IsNum(end) THEN end.n ELSE 0
      final == IF rel < 0 THEN 0 ELSE (IF rel < n THEN rel ELSE n)
  IN  SubSeq(list, 1, final)

\* Array.prototype.slice(0, end) where end is a number or NaN.
Slice0(list, end) ==
  LET n == Len(list)
      rel == IF IsNum(end) THEN end.n ELSE 0
      final == IF rel < 0 THEN (IF n + rel > 0 THEN n + rel ELSE 0)
               ELSE (IF rel < n THEN rel ELSE n)
  IN  SubSeq(list, 1, final)

\* Default comparison of Array.prototype.sort on two strings: a sorts before
\* b when it is smaller in code-unit (lexicographic) order.
RECURSIVE StrLess(_, _)
StrLess(a, b) ==
  IF b = <<>> THEN FALSE
  ELSE IF a = <<>> THEN TRUE
  ELSE IF Code(Head(a)) # Code(Head(b)) THEN Code(Head(a)) < Code(Head(b))
  ELSE StrLess(Tail(a), Tail(b))

\* Insert the string value v into the sorted sequence `sorted`.
RECURSIVE SortInsert(_, _)
SortInsert(sorted, v) ==
  IF sorted = <<>> THEN <<v>>
  ELSE IF StrLess(v.s, Head(sorted).s) THEN <<v>> \o sorted
  ELSE <<Head(sorted)>> \o SortInsert(Tail(sorted), v)

\* The metadata list left in first-occurrence order (the .sort() forgotten).
SortForgotten(list) == list

\* Array.prototype.sort() without a comparator, on string values.
RECURSIVE Sort(_)
Sort(list) ==
  IF list = <<>> THEN <<>>
  ELSE SortInsert(Sort(SubSeq(list, 1, Len(list) - 1)), list[Len(list)])

\* [...new Set(list)]: the first occurrence of each value, in order.
RECURSIVE Distinct(_)
Distinct(list) ==
  IF list = <<>> THEN <<>>
  ELSE LET init == Distinct(SubSeq(list, 1, Len(list) - 1))
           v == list[Len(list)]
       IN  IF \E i \in 1..Len(init) : init[i] = v THEN init
           ELSE Append(init, v)

\* ------------------------------------------------------------ the records
\* Opaque string tokens: the code never inspects these values.
English == Str(<<"English">>)

PlaceholderImage ==
  Str(<<"https://images.pexels.com/photos/159711/books-bookstore-book-reading-159711.jpeg">>)

\* new Date().toISOString() and new Date().getFullYear() at request time.
NowISO == Str(<<"now">>)

CurrentYear == 2026

\* The seed collection of ../data/books.js: ids 1..SeedSize, text fields
\* strings, numeric fields numbers.
SeedBook(i) ==
  [id |-> Num(i),
   title |-> Str(IF i % 2 = 1 THEN <<"A", "b">> ELSE <<"b">>),
   author |-> Str(IF i % 2 = 1 THEN <<"b">> ELSE <<"A", "b">>),
   isbn |-> Str(<<>>),
   publishedYear |-> Num(2019 + (i % 2)),
   genre |-> Str(IF i % 2 = 1 THEN <<"a">> ELSE <<"B">>),
   price |-> Num(5 * i),
   description |-> Str(IF i % 2 = 1 THEN <<>> ELSE <<"x">>),
   pages |-> Num(100),
   publisher |-> Str(<<>>),
   language |-> English,
   rating |-> Num(4),
   stock |-> Num(1),
   image |-> PlaceholderImage,
   createdAt |-> NowISO]

Seed == [i \in 1..SeedSize |-> SeedBook(i)]

\* ------------------------------------------------------- read handlers
\* One filter callback's outcome on one record: "T" kept, "F" dropped,
\* "X" a TypeError (toLowerCase read on a value that is not a string).
SearchKeeps(book, searchTerm) ==
  IF ~IsStr(book.title) THEN "X"
  ELSE IF Includes(ToLowerCase(book.title.s), searchTerm) THEN "T"
  ELSE IF ~IsStr(book.author) THEN "X"
  ELSE IF Includes(ToLowerCase(book.author.s), searchTerm) THEN "T"
  ELSE IF ~IsStr(book.description) THEN "X"
  ELSE IF Includes(ToLowerCase(book.description.s), searchTerm) THEN "T"
  ELSE IF ~IsStr(book.genre) THEN "X"
  ELSE IF Includes(ToLowerCase(book.genre.s), searchTerm) THEN "T"
  ELSE "F"

AuthorKeeps(book, author) ==
  IF ~IsStr(book.author) THEN "X"
  ELSE IF Includes(ToLowerCase(book.author.s), ToLowerCase(author.s)) THEN "T"
  ELSE "F"

GenreKeeps(book, genre) ==
  IF ~IsStr(book.genre) THEN "X"
  ELSE IF ToLowerCase(book.genre.s) = ToLowerCase(genre.s) THEN "T"
  ELSE "F"

\* book.price >= parseFloat(minPrice): false when either side is NaN.
MinPriceKeeps(book, minPrice) ==
  LET m == ParseFloat(minPrice)
  IN  IF IsNum(book.price) /\ IsNum(m) /\ book.price.n >= m.n THEN "T" ELSE "F"

MaxPriceKeeps(book, maxPrice) ==
  LET m == ParseFloat(maxPrice)
  IN  IF IsNum(book.price) /\ IsNum(m) /\ book.price.n <= m.n THEN "T" ELSE "F"

YearKeeps(book, year) ==
  IF StrictEq(book.publishedYear, ParseInt(year)) THEN "T" ELSE "F"

\* The outcome of the filter named f of the query q on one record.
Keeps(f, book, q) ==
  CASE f = "search" -> SearchKeeps(book, ToLowerCase(q.search.s))
    [] f = "author" -> AuthorKeeps(book, q.author)
    [] f = "genre" -> GenreKeeps(book, q.genre)
    [] f = "minPrice" -> MinPriceKeeps(book, q.minPrice)
    [] f = "maxPrice" -> MaxPriceKeeps(book, q.maxPrice)
    [] f = "year" -> YearKeeps(book, q.year)

\* The filters in the order the handler applies them.
FilterOrder == <<"search", "author", "genre", "minPrice", "maxPrice", "year">>

\* filteredBooks after the first k filters; thrown is set once a callback
\* has thrown (the catch block then answers 500).
RECURSIVE Filtered(_, _, _)
Filtered(bs, q, k) ==
  IF k = 0 THEN [thrown |-> FALSE, list |-> bs]
  ELSE LET prev == Filtered(bs, q, k - 1)
           f == FilterOrder[k]
       IN  IF prev.thrown \/ ~Truthy(q[f]) THEN prev
           ELSE IF \E i \in 1..Len(prev.list) : Keeps(f, prev.list[i], q) = "X"
                THEN [thrown |-> TRUE, list |-> <<>>]
           ELSE [thrown |-> FALSE,
                 list |-> SelectSeq(prev.list, LAMBDA b : Keeps(f, b, q) = "T")]

\* const { ..., limit = 22 } = req.query
DefaultLimit == 22

LimitOf(q) == IF q.limit.t = "undefined" THEN Num(DefaultLimit) ELSE q.limit

\* GET /
ListResponse(bs, q) ==
  LET fl == Filtered(bs, q, Len(FilterOrder))
      limitedBooks == Slice0(fl.list, ParseInt(LimitOf(q)))
  IN  IF fl.thrown
      THEN [status |-> 500, message |-> "Failed to fetch books"]
      ELSE [status |-> 200, books |-> limitedBooks, total |-> Len(fl.list),
            showing |-> Len(limitedBooks)]

\* books.findIndex(b => b.id === parseInt(id)); 0 stands for -1.
FindIndex(bs, id) ==
  LET want == ParseInt(id)
      hits == {i \in 1..Len(bs) : StrictEq(bs[i].id, want)}
  IN  IF hits = {} THEN 0 ELSE CHOOSE i \in hits : \A j \in hits : i <= j

\* GET /:id
GetOneResponse(bs, id) ==
  LET i == FindIndex(bs, id)
  IN  IF i = 0 THEN [status |-> 404, message |-> "Book not found"]
      ELSE [status |-> 200, book |-> bs[i]]

\* GET /meta/genres and GET /meta/authors
MetaResponse(bs, field) ==
  [status |-> 200,
   list |-> Sort(Distinct([i \in 1..Len(bs) |-> bs[i][field]]))]

\* ----------------------------------------------------- mutation handlers
\* POST / : the handler body, given the collection and req.body.
CreateResult(bs, body) ==
  LET title == Get(body, "title")
      author == Get(body, "author")
      genre == Get(body, "genre")
      price == Get(body, "price")
      newBook ==
        [id |-> Num(Len(bs) + 1),
         title |-> title,
         author |-> author,
         isbn |-> OrElse(Get(body, "isbn"), Str(<<>>)),
         publishedYear |->
           OrElse(ParseInt(Get(body, "publishedYear")), Num(CurrentYear)),
         genre |-> genre,
         price |-> ParseFloat(price),
         description |-> OrElse(Get(body, "description"), Str(<<>>)),
         pages |-> OrElse(ParseInt(Get(body, "pages")), Num(0)),
         publisher |-> OrElse(Get(body, "publisher"), Str(<<>>)),
         language |-> OrElse(Get(body, "language"), English),
         rating |-> Num(0),
         stock |-> Num(0),
         image |-> OrElse(Get(body, "image"), PlaceholderImage),
         createdAt |-> NowISO]
  IN  IF ~Truthy(title) \/ ~Truthy(author) \/ ~Truthy(genre) \/ ~Truthy(price)
      THEN [books |-> bs,
            res |-> [status |-> 400,
                     message |-> "Title, author, genre, and price are required"]]
      ELSE [books |-> Append(bs, newBook),
            res |-> [status |-> 201, message |-> "Book created successfully",
                     book |-> newBook]]

\* { ...old, ...body }: the merge without the trailing id: old.id.
MergeBodyWins(old, body) ==
  [f \in (DOMAIN old) \cup (DOMAIN body) |->
     IF f \in DOMAIN body THEN body[f] ELSE old[f]]

\* { ...old, ...body, id: old.id }
Merge(old, body) ==
  [f \in (DOMAIN old) \cup (DOMAIN body) \cup {"id"} |->
     IF f = "id" THEN old.id
     ELSE IF f \in DOMAIN body THEN body[f]
     ELSE old[f]]

\* PUT /:id : the handler body.
UpdateResult(bs, id, body) ==
  LET bookIndex == FindIndex(bs, id)
      updatedBook == Merge(bs[bookIndex], body)
  IN  IF bookIndex = 0
      THEN [books |-> bs,
            res |-> [status |-> 404, message |-> "Book not found"]]
      ELSE [books |-> [bs EXCEPT ![bookIndex] = updatedBook],
            res |-> [status |-> 200, message |-> "Book updated successfully",
                     book |-> updatedBook]]

\* books.splice(i, 1): the collection without its i-th record.
Splice1(bs, i) == SubSeq(bs, 1, i - 1) \o SubSeq(bs, i + 1, Len(bs))

\* DELETE /:id without the bookIndex === -1 return: splice(-1, 1) removes the
\* last record.
DeleteResultUnguarded(bs, id) ==
  LET found == FindIndex(bs, id)
      bookIndex == IF found = 0 THEN Len(bs) ELSE found
  IN  IF bs = <<>>
      THEN [books |-> bs,
            res |-> [status |-> 404, message |-> "Book not found"]]
      ELSE [books |-> Splice1(bs, bookIndex),
            res |-> [status |-> 200, message |-> "Book deleted successfully",
                     book |-> bs[bookIndex]]]

\* DELETE /:id : the handler body.
DeleteResult(bs, id) ==
  LET bookIndex == FindIndex(bs, id)
  IN  IF bookIndex = 0
      THEN [books |-> bs,
            res |-> [status |-> 404, message |-> "Book not found"]]
      ELSE [books |-> Splice1(bs, bookIndex),
            res |-> [status |-> 200, message |-> "Book deleted successfully",
                     book |-> bs[bookIndex]]]

\* ------------------------------------------------------------ the router
ReadRoutes == {"list", "getOne", "genres", "authors"}

MutationRoutes == {"create", "update", "delete"}

\* The mutation routes registered with authMiddleware only.
PipelineAuthOnly(route) ==
  IF route \in MutationRoutes THEN <<"authMiddleware">> ELSE <<>>

\* The middleware registered before each route's handler.
Pipeline(route) ==
  IF route \in MutationRoutes THEN <<"authMiddleware", "adminMiddleware">>
  ELSE <<>>

\* The status a middleware answers with when it does not call next().
RejectStatus(mw) == IF mw = "authMiddleware" THEN 401 ELSE 403

\* -------------------------------------------------------------- requests
DigitChar(k) == CHOOSE c \in Chars : Code(c) = 48 + k

\* req.params.id
IdParams ==
  {Str(<<DigitChar(k)>>) : k \in 1..(SeedSize + 1)}
    \cup {Str(<<"2", "x">>), Str(<<"x">>), Str(<<"9", "9", "9">>)}

\* req.body of POST /
CreateBodies ==
  { [title |-> Str(<<"B">>), author |-> Str(<<"a", "x">>),
     genre |-> Str(<<"A">>), price |-> Num(7),
     publishedYear |-> Str(<<"2", "0", "2", "0">>),
     description |-> Str(<<"a", "b">>), pages |-> Num(10)],
    [title |-> Str(<<"x">>), author |-> Str(<<"b">>),
     genre |-> Str(<<"a">>), price |-> Str(<<"0">>)],
    [title |-> Num(7), author |-> Str(<<"b">>),
     genre |-> Str(<<"B">>), price |-> Num(3)],
    [title |-> Str(<<"x">>)],
    [title |-> Str(<<"x">>), author |-> Str(<<>>),
     genre |-> Str(<<"a">>), price |-> Num(3)],
    [title |-> Str(<<"x">>), author |-> Str(<<"b">>),
     genre |-> Str(<<"a">>), price |-> Num(0)] }

\* req.body of PUT /:id
UpdateBodies ==
  { [id |-> Num(9), genre |-> Str(<<"b">>)],
    [price |-> Num(0), author |-> Str(<<"x">>)] }

\* req.query of GET /
ListQueries ==
  [search : {Undef, Str(<<"A">>)},
   author : {Undef, Str(<<"B">>)},
   genre : {Undef, Str(<<>>), Str(<<"b">>)},
   minPrice : {Undef, Str(<<"4">>)},
   maxPrice : {Undef, Str(<<"7">>)},
   year : {Undef, Str(<<"2", "0", "2", "0", "x">>)},
   limit : {Undef, Str(<<"0">>), Str(<<"1">>), Str(<<"-", "1">>), Str(<<"x">>)}]

NoQuery == [search |-> Undef, author |-> Undef, genre |-> Undef,
            minPrice |-> Undef, maxPrice |-> Undef, year |-> Undef,
            limit |-> Undef]

Request(route, id, body, query) ==
  [route |-> route, id |-> id, body |-> body, query |-> query]

NoReq == Request("none", Undef, <<>>, NoQuery)

NoRes == [status |-> 0]

\* The list queries tried beside the other routes.
FewQueries ==
  {NoQuery,
   [NoQuery EXCEPT !.search = Str(<<"A">>), !.limit = Str(<<"1">>)]}

\* Every route, with a few list queries.
Requests ==
  {Request("list", Undef, <<>>, q) : q \in FewQueries}
    \cup {Request("getOne", id, <<>>, NoQuery) : id \in IdParams}
    \cup {Request("genres", Undef, <<>>, NoQuery),
          Request("authors", Undef, <<>>, NoQuery)}
    \cup {Request("create", Undef, b, NoQuery) : b \in CreateBodies}
    \cup {Request("update", id, b, NoQuery) : id \in IdParams, b \in UpdateBodies}
    \cup {Request("delete", id, <<>>, NoQuery) : id \in IdParams}

\* Every list query, with the mutations that vary what it is asked of.
ListRequests ==
  {Request("list", Undef, <<>>, q) : q \in ListQueries}
    \cup {Request("create", Undef, b, NoQuery) :
            b \in {c \in CreateBodies : "pages" \in DOMAIN c \/ IsNum(c.title)}}
    \cup {Request("update", Str(<<"2">>), b, NoQuery) :
            b \in {u \in UpdateBodies : "price" \in DOMAIN u}}
    \cup {Request("delete", Str(<<"1">>), <<>>, NoQuery)}

\* ----------------------------------------------------------------- state
VARIABLES
  books,        \* the shared in-memory collection
  req,          \* the request in the router, NoReq when there is none
  ran,          \* pipeline stages that have run for that request
  res,          \* its response, NoRes until it is answered
  before,       \* the collection as it was when that request arrived
  writes,       \* number of successful creates and updates so far
  assigned,     \* every identifier handed out so far (seed and creates)
  lastCreated,  \* <<record>> returned by a create with no mutation since
  lastDeleted   \* <<record>> returned by a delete with no mutation since

vars == <<books, req, ran, res, before, writes, assigned,
          lastCreated, lastDeleted>>

Init ==
  /\ books = Seed
  /\ req = NoReq
  /\ ran = <<>>
  /\ res = NoRes
  /\ before = Seed
  /\ writes = 0
  /\ assigned = 1..SeedSize
  /\ lastCreated = <<>>
  /\ lastDeleted = <<>>

\* A request of the set R enters the router.
ArriveFrom(R) ==
  /\ req = NoReq
  /\ \E r \in R :
       /\ r.route \in {"create", "update"} => writes < MaxWrites
       /\ req' = r
  /\ before' = books
  /\ UNCHANGED <<books, ran, res, writes, assigned, lastCreated, lastDeleted>>

Arrive == ArriveFrom(Requests)

ArriveList == ArriveFrom(ListRequests)

\* The request is in the router and not answered yet.
Pending == req # NoReq /\ res = NoRes

\* The next middleware of the route accepts the request and calls next().
MiddlewareNext ==
  /\ Pending
  /\ Len(ran) < Len(Pipeline(req.route))
  /\ ran' = Append(ran, Pipeline(req.route)[Len(ran) + 1])
  /\ UNCHANGED <<books, req, res, before, writes, assigned,
                 lastCreated, lastDeleted>>

\* The next middleware of the route rejects the request and answers itself.
MiddlewareReject ==
  /\ Pending
  /\ Len(ran) < Len(Pipeline(req.route))
  /\ LET mw == Pipeline(req.route)[Len(ran) + 1]
     IN  /\ ran' = Append(ran, mw)
         /\ res' = [status |-> RejectStatus(mw)]
  /\ UNCHANGED <<books, req, before, writes, assigned,
                 lastCreated, lastDeleted>>

\* The route's handler is reached once its whole pipeline has run.
AtHandler(route) ==
  /\ Pending
  /\ req.route = route
  /\ Len(ran) = Len(Pipeline(route))

List ==
  /\ AtHandler("list")
  /\ res' = ListResponse(books, req.query)
  /\ ran' = Append(ran, "handler")
  /\ UNCHANGED <<books, req, before, writes, assigned,
                 lastCreated, lastDeleted>>

GetOne ==
  /\ AtHandler("getOne")
  /\ res' = GetOneResponse(books, req.id)
  /\ ran' = Append(ran, "handler")
  /\ UNCHANGED <<books, req, before, writes, assigned,
                 lastCreated, lastDeleted>>

Genres ==
  /\ AtHandler("genres")
  /\ res' = MetaResponse(books, "genre")
  /\ ran' = Append(ran, "handler")
  /\ UNCHANGED <<books, req, before, writes, assigned,
                 lastCreated, lastDeleted>>

Authors ==
  /\ AtHandler("authors")
  /\ res' = MetaResponse(books, "author")
  /\ ran' = Append(ran, "handler")
  /\ UNCHANGED <<books, req, before, writes, assigned,
                 lastCreated, lastDeleted>>

Create ==
  /\ AtHandler("create")
  /\ LET r == CreateResult(books, req.body)
     IN  /\ books' = r.books
         /\ res' = r.res
         /\ IF r.res.status = 201
            THEN /\ writes' = writes + 1
                 /\ assigned' = assigned \cup {r.res.book.id.n}
                 /\ lastCreated' = <<r.res.book>>
                 /\ lastDeleted' = <<>>
            ELSE UNCHANGED <<writes, assigned, lastCreated, lastDeleted>>
  /\ ran' = Append(ran, "handler")
  /\ UNCHANGED <<req, before>>

Update ==
  /\ AtHandler("update")
  /\ LET r == UpdateResult(books, req.id, req.body)
     IN  /\ books' = r.books
         /\ res' = r.res
         /\ IF r.res.status = 200
            THEN /\ writes' = writes + 1
                 /\ lastCreated' = <<>>
                 /\ lastDeleted' = <<>>
            ELSE UNCHANGED <<writes, lastCreated, lastDeleted>>
  /\ ran' = Append(ran, "handler")
  /\ UNCHANGED <<req, before, assigned>>

Delete ==
  /\ AtHandler("delete")
  /\ LET r == DeleteResult(books, req.id)
     IN  /\ books' = r.books
         /\ res' = r.res
         /\ IF r.res.status = 200
            THEN /\ lastCreated' = <<>>
                 /\ lastDeleted' = <<r.res.book>>
            ELSE UNCHANGED <<lastCreated, lastDeleted>>
  /\ ran' = Append(ran, "handler")
  /\ UNCHANGED <<req, before, writes, assigned>>

\* The response has been sent: the request leaves the router.
Finish ==
  /\ req # NoReq
  /\ res # NoRes
  /\ req' = NoReq
  /\ ran' = <<>>
  /\ res' = NoRes
  /\ before' = books
  /\ UNCHANGED <<books, writes, assigned, lastCreated, lastDeleted>>

Next ==
  \/ Arrive
  \/ MiddlewareNext
  \/ MiddlewareReject
  \/ List
  \/ GetOne
  \/ Genres
  \/ Authors
  \/ Create
  \/ Update
  \/ Delete
  \/ Finish

Spec == Init /\ [][Next]_vars

\* The router under every list query.
NextList ==
  \/ ArriveList
  \/ MiddlewareNext
  \/ MiddlewareReject
  \/ List
  \/ Create
  \/ Update
  \/ Delete
  \/ Finish

SpecList == Init /\ [][NextList]_vars

\* ================================================================ claims
\* The handler of `route` has answered the request in the router.
HandledBy(route) ==
  /\ req.route = route
  /\ res # NoRes
  /\ Len(ran) > 0
  /\ ran[Len(ran)] = "handler"

\* The record carries the identifier the id parameter names.
Matches(book, id) == StrictEq(book.id, ParseInt(id))

Min(a, b) == IF a < b THEN a ELSE b

Max(a, b) == IF a > b THEN a ELSE b

Range(seq) == {seq[i] : i \in 1..Len(seq)}

RequiredFields == {"title", "author", "genre", "price"}

\* C1: no two records of the collection have the same identifier.
C1_UniqueIds ==
  \A i, j \in 1..Len(books) : i # j => books[i].id # books[j].id

\* C2: a successful create yields an identifier strictly greater than every
\* identifier handed out before it (seed or earlier create, deleted or not).
C2_FreshId ==
  [][(AtHandler("create") /\ res'.status = 201)
       => \A k \in assigned : res'.book.id.n > k]_vars

\* C3: a fetch, update or delete whose id matches no record answers 404 and
\* leaves the collection exactly as it was.
C3_NotFoundUnchanged ==
  \A route \in {"getOne", "update", "delete"} :
    (HandledBy(route) /\ \A i \in 1..Len(before) : ~Matches(before[i], req.id))
      => res.status = 404 /\ books = before

C3_Witness ==
  /\ HandledBy("delete")
  /\ res.status = 404
  /\ Len(books) >= 2
  /\ IsNum(ParseInt(req.id))

\* The body does not carry the field (an empty string counts as missing).
Missing(body, f) == f \notin DOMAIN body \/ body[f] = Str(<<>>)

\* C4: a create answers 400 and changes nothing exactly when one of title,
\* author, genre, price is missing from the body; otherwise (a price of 0
\* included) it answers 201 and appends exactly one record.
C4_CreateValidation ==
  HandledBy("create") =>
    IF \E f \in RequiredFields : Missing(req.body, f)
    THEN res.status = 400 /\ books = before
    ELSE res.status = 201 /\ books = Append(before, res.book)

\* C5: a successful update replaces the matched record by the body merged
\* over it with the original identifier kept; fields the body omits keep
\* their values; length, position and every other record are unchanged.
C5_UpdateMerge ==
  (HandledBy("update") /\ res.status = 200) =>
    \E i \in 1..Len(before) :
      /\ Matches(before[i], req.id)
      /\ \A j \in 1..(i - 1) : ~Matches(before[j], req.id)
      /\ Len(books) = Len(before)
      /\ \A j \in 1..Len(before) : j # i => books[j] = before[j]
      /\ books[i] = res.book
      /\ res.book.id = before[i].id
      /\ DOMAIN res.book = (DOMAIN before[i]) \cup (DOMAIN req.body)
      /\ \A f \in (DOMAIN req.body) \ {"id"} : res.book[f] = req.body[f]
      /\ \A f \in (DOMAIN before[i]) \ (DOMAIN req.body) :
           res.book[f] = before[i][f]

C5_Witness ==
  /\ HandledBy("update")
  /\ res.status = 200
  /\ "id" \in DOMAIN req.body
  /\ req.body.id # res.book.id
  /\ res.book.genre = req.body.genre
  /\ Len(books) >= 2

\* The record passes every filter the query supplies (a parameter that is
\* absent or empty supplies none).
Satisfies(book, q) ==
  \A k \in 1..Len(FilterOrder) :
    Truthy(q[FilterOrder[k]]) => Keeps(FilterOrder[k], book, q) = "T"

\* The list response counts and returns records that satisfy the query.
ListCounts ==
  /\ res.total = Cardinality({i \in 1..Len(before) : Satisfies(before[i], req.query)})
  /\ res.showing = Len(res.books)
  /\ \A i \in 1..Len(res.books) :
       /\ Satisfies(res.books[i], req.query)
       /\ res.books[i] \in Range(before)

C7_Gated ==
  /\ books # before =>
       /\ req.route \in MutationRoutes
       /\ ran = <<"authMiddleware", "adminMiddleware", "handler">>
  /\ \A route \in MutationRoutes :
       HandledBy(route) =>
         ran = <<"authMiddleware", "adminMiddleware", "handler">>
  /\ \A route \in ReadRoutes : HandledBy(route) => ran = <<"handler">>
  /\ res.status \in {401, 403} => books = before

C7_Witness ==
  /\ HandledBy("delete")
  /\ ran = <<"authMiddleware", "adminMiddleware", "handler">>
  /\ books # before

\* The metadata list holds exactly the values of `field` in the collection,
\* each once, in ascending order.
MetaExact(field) ==
  /\ res.status = 200
  /\ Range(res.list) = {books[i][field] : i \in 1..Len(books)}
  /\ \A i, j \in 1..Len(res.list) :
       i < j => StrLess(res.list[i].s, res.list[j].s)

\* C8: the genres and authors endpoints return exactly the distinct genre
\* and author values of the current collection, without duplicates, ascending.
C8_Metadata ==
  /\ HandledBy("genres") => MetaExact("genre")
  /\ HandledBy("authors") => MetaExact("author")

C8_Witness ==
  /\ HandledBy("genres")
  /\ lastDeleted # <<>>
  /\ lastDeleted[1].genre \notin Range(res.list)
  /\ Len(res.list) >= 2
  /\ Len(res.list) < Len(books)
  /\ res.list[1] # books[1].genre

\* C9: a fetch of the identifier a create has just returned, with no
\* mutation in between, returns that newly created record.
C9_ReadAfterCreate ==
  (/\ HandledBy("getOne")
   /\ lastCreated # <<>>
   /\ StrictEq(ParseInt(req.id), lastCreated[1].id))
    => res.status = 200 /\ res.book = lastCreated[1]

\* C10: a successful delete removes exactly the record it returns, whose
\* identifier is the requested one; the other records keep contents and
\* order; a fetch of that id right after answers 404.
C10_DeleteRemoves ==
  /\ (HandledBy("delete") /\ res.status = 200) =>
       /\ Matches(res.book, req.id)
       /\ Len(books) = Len(before) - 1
       /\ \E i \in 1..Len(before) :
            before[i] = res.book /\ books = Splice1(before, i)
  /\ (/\ HandledBy("getOne")
      /\ lastDeleted # <<>>
      /\ StrictEq(ParseInt(req.id), lastDeleted[1].id))
       => res.status = 404

====
